---- MODULE Spec2Model ----
(***************************************************************************)
(* Job lifecycle and worker coordination of the docling server:            *)
(* QueueManager (src/src/services/queue_manager.py) with its shared jobs   *)
(* file, the thread pool that runs the jobs, and the HTTP handlers of      *)
(* src/src/routes/ocr.py and src/src/routes/jobs.py that drive it.         *)
(*                                                                         *)
(* Threads: thread 0 is the event loop of the server process (every route  *)
(* is an `async def` that calls the queue manager synchronously, so one    *)
(* request runs at a time); threads 1..max_workers are the threads of the  *)
(* ThreadPoolExecutor.  All of them share self.jobs, the jobs file and its *)
(* single temporary file.                                                  *)
(***************************************************************************)
EXTENDS Integers, Sequences, FiniteSets, TLC

\* ---------------------------------------------------------------- bounds
MaxJobs == 3            \* submissions accepted in one run
MaxTime == 1            \* hours the clock may advance
MaxForeign == 1         \* records written by a process of another deployment
MaxInits == 1           \* QueueManager initialisations of sibling processes
NumProcs == 2           \* worker processes of the deployment
MaxRuns == 2            \* warmup runs started in the deployment
MaxCrashes == 1         \* worker processes that are killed
NumCallers == 2
NumStoreIds == 2
MaxCalls == 4
MaxIds == 3
MaxHoursOld == 2

\* ------------------------------------------------------ program constants
max_workers == 2        \* RQ_WORKERS
max_jobs_per_file == 2  \* MAX_JOBS_PER_FILE

deployment_id == "d1"
other_deployment_id == "d0"

None == "None"
NoId == <<"none", 0>>
Empty == << >>

Threads == 0 .. max_workers
Workers == 1 .. max_workers
Loop == 0
Procs == 1 .. NumProcs

VARIABLES
    file,            \* /tmp/docling_jobs.json: [kind, jobs]
    tmp,             \* /tmp/docling_jobs.tmp, between two writes: [kind, jobs]
    archive,         \* ids of the records held by the files of jobs_archive_dir
    blobs,           \* ids that have a file in results_dir
    jobs,            \* self.jobs
    active_workers,  \* self.active_workers
    deleted,         \* ids for which delete_job has returned True
    queue,           \* work queue of self.executor (FIFO)
    next_id,         \* stands for uuid4: the next fresh id
    now,             \* utcnow(), in hours
    pc, op, tjob, upd, snap,   \* per thread: position, store operation, job, fields, jobs_data
    aliased,         \* threads whose jobs_data is the object self.jobs is bound to
    req, resp,       \* the request the event loop serves; what the last call returned
    committed,       \* what the last completed write left in the jobs file
    foreign, inits,  \* counters of the environment's steps
    crashed,         \* the server process was killed
    observe,         \* whether the run records the responses of the routes
    invoked,         \* per job id: how many times func was called for it
    done             \* ids of the jobs whose process_job has ended

\* The warmup coordinator (src/src/services/warmup_service.py): one
\* WarmupService per worker process of the deployment, and the Redis keys
\* they share.
VARIABLES
    use_redis_coordination,  \* the mode the services are constructed in
    warmup_files,    \* whether warmup_dir holds a PDF
    redis_status,    \* WARMUP_STATUS_KEY
    redis_lock,      \* WARMUP_LOCK_KEY: {} when unset, else {worker_id of the holder}
    proc,            \* per process: "down", "up" or "dead"
    warmup_status,   \* per process: self.warmup_status
    spc,             \* per process: position of its start_warmup call
    rpc,             \* per process: position of its _run_warmup thread
    exercised,       \* the pipeline has processed a document successfully
    runs,            \* number of _run_warmup threads started so far
    hist,            \* what has happened: failures, crashes, expiries
    is_ready_result, \* per process: what its last is_ready() returned
    overdue,         \* per process: its warmup has run past the bounded duration
    polled,          \* per process: /warmup/status was asked about an overdue warmup
    skipped          \* some start_warmup returned at its status test

\* The job-store backends (src/src/services/memory_job_store.py,
\* redis_job_store.py, job_db.py) and the deployment identity
\* (src/src/utils/deployment_id.py).
VARIABLES
    backend,         \* which backend the store is
    store,           \* job_id -> job_data, as the backend holds it
    bpc, barg, bret, \* per caller: position, the call and its arguments, what it returned
    trues,           \* per job_id: the callers whose create_job returned True
    bclock,          \* utcnow() of the store's writes
    ncalls,          \* number of calls made so far
    deployment_file, \* /tmp/docling_deployment_id: the identifier in it, 0 if none
    flock,           \* holder of the lock on /tmp/docling_deployment_id.lock
    dpc,             \* per process: position of its call
    local_id,        \* per process: the local deployment_id of its call
    cached,          \* per process: DeploymentIDManager._deployment_id
    returned,        \* the identifiers the calls have returned so far
    generated        \* number of uuid4 identifiers generated so far

qvars == <<file, tmp, archive, blobs, jobs, active_workers, queue, next_id, now,
           pc, op, tjob, upd, snap, aliased, req, resp, committed,
           foreign, inits, crashed, observe, invoked, done, deleted>>
wvars == <<use_redis_coordination, warmup_files, redis_status, redis_lock, proc,
           warmup_status, spc, rpc, exercised, runs, hist, is_ready_result,
           overdue, polled, skipped>>
svars == <<backend, store, bpc, barg, bret, trues, bclock, ncalls>>
dvars == <<deployment_file, flock, dpc, local_id, cached, returned, generated>>
vars == <<qvars, wvars, svars, dvars>>

\* ------------------------------------------------------------ the store
Missing == [kind |-> "missing", jobs |-> Empty]
Json(js) == [kind |-> "json", jobs |-> js]
\* a temporary file left behind by a killed writer
Orphan == [kind |-> "partial", jobs |-> Empty]

\* a jobs file that is there but does not hold a JSON object: it is empty,
\* is text that is not JSON, is JSON of another type, or is not text at all
\* (bytes that are not UTF-8)
DamagedKinds == {"empty", "invalid", "nonobject", "undecodable"}
Damaged(k) == [kind |-> k, jobs |-> Empty]

\* _load_jobs_from_file: a missing or empty file, a JSONDecodeError and a JSON
\* value that is not a dict all read as the empty store
_load_jobs_from_file(f) ==
    IF f.kind = "json" THEN f.jobs ELSE Empty

\* f.read() raises UnicodeDecodeError on bytes that are not UTF-8; it is a
\* ValueError, which the except clause of _load_jobs_from_file
\* (FileNotFoundError, JSONDecodeError, OSError) does not catch
LoadRaises(f) == f.kind = "undecodable"

\* dict with key k set / removed
Put(js, k, v) == [x \in DOMAIN js \cup {k} |-> IF x = k THEN v ELSE js[x]]
Del(js, k) == [x \in DOMAIN js \ {k} |-> js[x]]

\* what POST /ocr/async hands to enqueue_job: no positional argument, and the
\* keyword argument args = (file_content, file.filename), which is not one of
\* the rq_kwargs and so stays in task_kwargs
RawBytes == "raw_bytes"
BytesMarker == "<bytes_data_size_n>"
route_args == << >>
route_kwargs == [args |-> <<RawBytes, "filename">>]

\* the job_data of enqueue_job
job_data(dep, t) ==
    [deployment_id |-> dep, status |-> "queued", created_at |-> t,
     args |-> route_args, kwargs |-> route_kwargs,
     result |-> None, error |-> None, active |-> FALSE, waiting |-> TRUE]

\* _create_result_summary: the record keeps a summary, never the full result
_create_result_summary(result) ==
    IF result = None THEN None ELSE "summary"

\* an update that would leave alone the fields given as None
UpdateGivenFields(rec, u) ==
    [rec EXCEPT !.status = u.status, !.active = u.active, !.waiting = u.waiting,
                !.result = IF u.result = None THEN @ ELSE _create_result_summary(u.result),
                !.error = IF u.error = None THEN @ ELSE u.error]

\* the dict.update of update_job_status (updated_at, which nothing reads, is
\* left out of the records)
UpdateFields(rec, u) ==
    [rec EXCEPT !.status = u.status, !.active = u.active, !.waiting = u.waiting,
                !.result = _create_result_summary(u.result), !.error = u.error]

NoUpd == [status |-> None, active |-> FALSE, waiting |-> FALSE, result |-> None, error |-> None]
StatusUpd(s, a, r, e) == [status |-> s, active |-> a, waiting |-> FALSE, result |-> r, error |-> e]

\* the id enqueue_job gives its k-th job
JobId(k) == <<deployment_id, k>>

\* job_id.startswith(f"{self.deployment_id}-")
HasPrefix(id) == id[1] = deployment_id

\* _check_file_rotation_needed (the size test is not modelled: records are small)
_check_file_rotation_needed(f, js) ==
    /\ f.kind # "missing"
    /\ Cardinality(DOMAIN js) > max_jobs_per_file

\* created_at of a record that has none (or an empty one), and one that
\* datetime.fromisoformat cannot parse; the others are hours
NoCreatedAt == 0 - 1
BadCreatedAt == 0 - 2

\* a selection that would keep only the records whose created_at parses to a
\* time within the last hour
RecentIdsParsedOnly(js, t) ==
    {k \in DOMAIN js : js[k].created_at >= 0 /\ js[k].created_at > t - 1}

\* the recent_jobs of _save_jobs_to_file: created within the last hour, or
\* kept "to be safe" because created_at is missing or cannot be parsed
RecentIds(js, t) ==
    {k \in DOMAIN js : \/ js[k].created_at = NoCreatedAt
                       \/ js[k].created_at = BadCreatedAt
                       \/ js[k].created_at > t - 1}
recent_jobs(js, t) == [k \in RecentIds(js, t) |-> js[k]]

\* _filter_job_data_for_storage: byte strings among job_data['args'] become a
\* marker with their size; job_data['kwargs'] is not looked at (the result is
\* already the summary of _create_result_summary).  json.dump(default=str)
\* then writes a remaining byte string as the text of its repr, which still
\* carries every byte: RawBytes stands for both
_filter_job_data_for_storage(rec) ==
    [rec EXCEPT !.args = [i \in DOMAIN rec.args |->
                            IF rec.args[i] = RawBytes THEN BytesMarker
                            ELSE rec.args[i]]]
filtered_jobs(js) == [k \in DOMAIN js |-> _filter_job_data_for_storage(js[k])]

NoReq == [op |-> "none", id |-> NoId, cid |-> NoId, existed |-> FALSE, nrec |-> 0, t |-> 0,
          hours_old |-> 0]
Resp(o, id, code, found) ==
    [op |-> o, id |-> id, code |-> code, found |-> found, status |-> None,
     cid |-> NoId, existed |-> FALSE, created |-> FALSE, removed |-> 0]
NoResp == Resp("none", NoId, 0, FALSE)

TypeOK ==
    /\ file.kind \in {"missing", "json"} \cup DamagedKinds
    /\ tmp.kind \in {"missing", "partial"}
    /\ active_workers \in Int
    /\ next_id \in 1 .. MaxJobs + 1
    /\ now \in 0 .. MaxTime

\* the warmup coordinator before any worker process has constructed its
\* WarmupService: no Redis key is set
WarmupStart(redis, files) ==
    /\ use_redis_coordination = redis
    /\ warmup_files = files
    /\ redis_status = None
    /\ redis_lock = {}
    /\ proc = [p \in Procs |-> "down"]
    /\ warmup_status = [p \in Procs |-> "not_started"]
    /\ spc = [p \in Procs |-> "idle"]
    /\ rpc = [p \in Procs |-> "idle"]
    /\ exercised = FALSE
    /\ runs = 0
    /\ hist = {}
    /\ is_ready_result = [p \in Procs |-> FALSE]
    /\ overdue = [p \in Procs |-> FALSE]
    /\ polled = [p \in Procs |-> FALSE]
    /\ skipped = FALSE

\* The initial values of the job-store backends and of the deployment
\* identity.
Backends == {"memory", "redis", "sqlite"}
Callers == 1 .. NumCallers
StoreIds == 1 .. NumStoreIds
NoCall == [op |-> "none", id |-> 0, updates |-> << >>, cur |-> << >>]

BackendStart(b) ==
    /\ backend = b
    /\ store = << >>
    /\ bpc = [c \in Callers |-> "idle"]
    /\ barg = [c \in Callers |-> NoCall]
    /\ bret = [c \in Callers |-> "none"]
    /\ trues = [id \in StoreIds |-> {}]
    /\ bclock = 0
    /\ ncalls = 0

DeployStart ==
    /\ deployment_file = 0
    /\ flock = {}
    /\ dpc = [p \in Procs |-> "idle"]
    /\ local_id = [p \in Procs |-> 0]
    /\ cached = [p \in Procs |-> 0]
    /\ returned = {}
    /\ generated = 0

QueueStart ==
    /\ file = Json(Empty)
    /\ tmp = Missing
    /\ archive = {}
    /\ blobs = {}
    /\ jobs = Empty
    /\ active_workers = 0
    /\ queue = << >>
    /\ next_id = 1
    /\ now = 0
    /\ pc = [t \in Threads |-> "idle"]
    /\ op = [t \in Threads |-> "none"]
    /\ tjob = [t \in Threads |-> NoId]
    /\ upd = [t \in Threads |-> NoUpd]
    /\ snap = [t \in Threads |-> Empty]
    /\ aliased = {}
    /\ req = NoReq
    /\ resp = NoResp
    /\ committed = Empty
    /\ foreign = 0
    /\ inits = 0
    /\ crashed = FALSE
    /\ observe = FALSE
    /\ invoked = [k \in 1 .. MaxJobs |-> 0]
    /\ done = {} /\ deleted = {}

Init ==
    /\ QueueStart
    /\ WarmupStart(FALSE, FALSE)
    /\ BackendStart("memory")
    /\ DeployStart

\* a response, recorded when the run observes the routes
Observed(r) == IF observe THEN r ELSE resp

\* ------------------------------------------------- the end of an operation
\* delete_job returns True once its save has returned
Deleted(t) == IF t = Loop /\ op[t] = "delete" THEN deleted \cup {tjob[t]} ELSE deleted

\* What follows the store operation of thread t: a pool thread goes on with
\* process_job, the event loop finishes its route and answers.  `found` is
\* whether the operation found its job, `bl` the results_dir it leaves.
Finish(t, found, bl) ==
    /\ pc' = [pc EXCEPT ![t] =
                IF t = Loop THEN "idle"
                ELSE IF upd[t].status = "processing" THEN "run" ELSE "release"]
    /\ queue' = IF t = Loop /\ op[t] = "create" THEN Append(queue, tjob[t]) ELSE queue
    /\ blobs' = IF t = Loop /\ op[t] = "delete" /\ found THEN bl \ {tjob[t]} ELSE bl
    /\ resp' = IF ~observe THEN resp
               ELSE IF op[t] = "create"
                    \* ocr.py:87 calls queue_manager._get_current_batch_id(), which
                    \* QueueManager does not define: AttributeError, answered as 500
                    THEN [Resp("submit", tjob[t], 500, TRUE) EXCEPT
                            !.cid = req.cid, !.existed = req.existed,
                            !.created = tjob[t] \in DOMAIN _load_jobs_from_file(file')]
               ELSE IF op[t] = "update"
                    THEN [Resp(IF t = Loop THEN "force" ELSE "update", tjob[t], 200, found)
                            EXCEPT !.status = upd[t].status]
               ELSE IF op[t] = "cleanup"
                    THEN [Resp("cleanup", NoId, 200, TRUE) EXCEPT !.removed = req.nrec]
               ELSE Resp("delete", tjob[t], IF found THEN 200 ELSE 404, found)
    /\ req' = IF t = Loop THEN NoReq ELSE req
    /\ op' = [op EXCEPT ![t] = "none"]
    /\ tjob' = IF t = Loop THEN [tjob EXCEPT ![t] = NoId] ELSE tjob
    /\ upd' = IF t = Loop THEN [upd EXCEPT ![t] = NoUpd] ELSE upd

\* --------------------------------------------------- steps of a store write
\* the exception of _load_jobs_from_file leaves _sync_jobs: enqueue_job,
\* delete_job and force_close_job's update_job_status end in a 500 answer;
\* in process_job the except branch calls update_job_status(failed), and when
\* that call raises too the exception leaves through the finally block
RaiseDecodeError(t) ==
    /\ pc' = [pc EXCEPT ![t] = IF t = Loop THEN "idle"
                               ELSE IF upd[t].status = "failed" THEN "release"
                               ELSE "sync"]
    /\ upd' = [upd EXCEPT ![t] = IF t = Loop THEN NoUpd
                                 ELSE IF upd[t].status = "failed" THEN upd[t]
                                 ELSE StatusUpd("failed", FALSE, None, "decode")]
    /\ op' = [op EXCEPT ![t] = IF t = Loop \/ upd[t].status = "failed"
                               THEN "none" ELSE "update"]
    /\ tjob' = IF t = Loop THEN [tjob EXCEPT ![t] = NoId] ELSE tjob
    /\ req' = IF t = Loop THEN NoReq ELSE req
    /\ resp' = IF t = Loop
               THEN Observed(Resp(IF op[t] = "create" THEN "submit"
                                  ELSE IF op[t] = "update" THEN "force" ELSE "delete",
                                  tjob[t], 500, FALSE))
               ELSE resp
    /\ UNCHANGED <<jobs, aliased>>

\* _sync_jobs
_sync_jobs(t) ==
    /\ ~crashed
    /\ pc[t] = "sync"
    /\ IF LoadRaises(file)
       THEN RaiseDecodeError(t)
       ELSE /\ jobs' = _load_jobs_from_file(file)
            /\ aliased' = {}
            /\ pc' = [pc EXCEPT ![t] = "modify"]
            /\ UNCHANGED <<op, tjob, upd, req, resp>>
    /\ UNCHANGED <<file, tmp, archive, blobs, active_workers, queue, next_id, now,
                   snap, committed, foreign, inits, crashed, observe, invoked, done>>
    /\ UNCHANGED <<deleted, wvars, svars, dvars>>

\* A change made in place to the dictionary self.jobs is bound to: the
\* threads whose jobs_data is that same object see it too.
Modify(t, js, bl, to) ==
    /\ jobs' = js
    /\ snap' = [u \in Threads |-> IF u \in aliased THEN js ELSE snap[u]]
    /\ blobs' = bl
    /\ pc' = [pc EXCEPT ![t] = to]
    /\ UNCHANGED <<file, aliased, committed, queue, resp, req, op, tjob, upd>>

\* enqueue_job: self.jobs[job_id] = job_data
enqueue_job(t) ==
    /\ ~crashed
    /\ pc[t] = "modify" /\ op[t] = "create"
    /\ Modify(t, Put(jobs, tjob[t], job_data(deployment_id, req.t)), blobs, "save")
    /\ UNCHANGED <<tmp, archive, active_workers, next_id, now, foreign, inits,
                   crashed, observe, invoked, done>>
    /\ UNCHANGED <<deleted, wvars, svars, dvars>>

\* update_job_status after its _sync_jobs: the test `job_id in self.jobs`
update_job_status(t) ==
    /\ ~crashed
    /\ pc[t] = "modify" /\ op[t] = "update"
    /\ IF tjob[t] \in DOMAIN jobs
       THEN /\ pc' = [pc EXCEPT ![t] = "update"]
            /\ UNCHANGED <<blobs, queue, resp, req, op, tjob, upd>>
       ELSE Finish(t, FALSE, blobs)
    /\ UNCHANGED <<file, tmp, archive, jobs, snap, aliased, committed, active_workers,
                   next_id, now, foreign, inits, crashed, observe, invoked, done>>
    /\ UNCHANGED <<deleted, wvars, svars, dvars>>

\* self.jobs[job_id] raises KeyError when self.jobs has been rebound, since the
\* test, to a dictionary without the job.  In process_job the except branch
\* then calls update_job_status(failed, error=str(e)), or, when the call that
\* raised was that one, the exception leaves process_job through its finally
\* block; force_close_job answers 500.
RaiseKeyError(t) ==
    /\ pc' = [pc EXCEPT ![t] = IF t = Loop THEN "idle"
                               ELSE IF upd[t].status = "failed" THEN "release"
                               ELSE "sync"]
    /\ upd' = [upd EXCEPT ![t] = IF t = Loop THEN NoUpd
                                 ELSE IF upd[t].status = "failed" THEN upd[t]
                                 ELSE StatusUpd("failed", FALSE, None, "keyerror")]
    /\ op' = [op EXCEPT ![t] = IF t = Loop \/ upd[t].status = "failed"
                               THEN "none" ELSE "update"]
    /\ tjob' = IF t = Loop THEN [tjob EXCEPT ![t] = NoId] ELSE tjob
    /\ req' = IF t = Loop THEN NoReq ELSE req
    /\ resp' = IF t = Loop THEN Observed(Resp("force", tjob[t], 500, FALSE)) ELSE resp
    /\ UNCHANGED <<file, jobs, snap, blobs, aliased, committed, queue>>

\* update_job_status: the record is updated in place; a completed job with a
\* result goes on to _store_full_result before the save
UpdateRecord(t) ==
    /\ ~crashed
    /\ pc[t] = "update"
    /\ IF tjob[t] \in DOMAIN jobs
       THEN /\ Modify(t,
                  [jobs EXCEPT ![tjob[t]] = UpdateFields(jobs[tjob[t]], upd[t])],
                  blobs,
                  IF upd[t].result # None /\ upd[t].status = "completed"
                  THEN "store_result" ELSE "save")
       ELSE RaiseKeyError(t)
    /\ UNCHANGED <<tmp, archive, active_workers, next_id, now, foreign, inits,
                   crashed, observe, invoked, done>>
    /\ UNCHANGED <<deleted, wvars, svars, dvars>>

\* _store_full_result: the full result is written to results_dir
_store_full_result(t) ==
    /\ ~crashed
    /\ pc[t] = "store_result"
    /\ blobs' = blobs \cup {tjob[t]}
    /\ pc' = [pc EXCEPT ![t] = "save"]
    /\ UNCHANGED <<file, tmp, archive, jobs, active_workers, queue, next_id, now,
                   op, tjob, upd, snap, aliased, req, resp, committed,
                   foreign, inits, crashed, observe, invoked, done>>
    /\ UNCHANGED <<deleted, wvars, svars, dvars>>

\* delete_job after its _sync_jobs: del self.jobs[job_id]
delete_job(t) ==
    /\ ~crashed
    /\ pc[t] = "modify" /\ op[t] = "delete"
    /\ IF tjob[t] \in DOMAIN jobs
       THEN Modify(t, Del(jobs, tjob[t]), blobs, "save")
       ELSE /\ Finish(t, FALSE, blobs)
            /\ UNCHANGED <<file, jobs, snap, aliased, committed>>
    /\ UNCHANGED <<tmp, archive, active_workers, next_id, now, foreign, inits,
                   crashed, observe, invoked, done>>
    /\ UNCHANGED <<deleted, wvars, svars, dvars>>

\* The call _save_jobs_to_file(self.jobs) by thread t: jobs_data is whatever
\* self.jobs is bound to when the call is made.  When no rotation is due the
\* temporary file is written and renamed over the jobs file, and self.jobs
\* becomes what was written; when one is due the thread goes on in
\* _rotate_jobs_file, its jobs_data still the object self.jobs is bound to.
_save_jobs_to_file(t) ==
    /\ ~crashed
    /\ pc[t] = "save"
    /\ IF _check_file_rotation_needed(file, jobs)
       THEN /\ pc' = [pc EXCEPT ![t] = "rot_archive"]
            /\ snap' = [snap EXCEPT ![t] = jobs]
            /\ aliased' = aliased \cup {t}
            /\ UNCHANGED <<file, jobs, blobs, committed, queue, resp, req, op,
                           tjob, upd>>
       ELSE /\ file' = Json(filtered_jobs(jobs))
            /\ committed' = filtered_jobs(jobs)
            /\ jobs' = filtered_jobs(jobs)
            /\ aliased' = {}
            /\ UNCHANGED snap
            /\ Finish(t, TRUE, blobs)
    /\ UNCHANGED <<tmp, archive, active_workers, next_id, now, foreign, inits,
                   crashed, observe, invoked, done>>
    /\ deleted' = IF pc'[t] = "rot_archive" THEN deleted ELSE Deleted(t)
    /\ UNCHANGED <<wvars, svars, dvars>>

\* _rotate_jobs_file, first half: copy the file to the archive and unlink it
_rotate_jobs_file(t) ==
    /\ ~crashed
    /\ pc[t] = "rot_archive"
    /\ IF file.kind = "missing"
       THEN /\ pc' = [pc EXCEPT ![t] = "write"]
            /\ UNCHANGED <<file, archive>>
       ELSE /\ archive' = archive \cup DOMAIN file.jobs
            /\ file' = Missing
            /\ pc' = [pc EXCEPT ![t] = "rot_ensure"]
    /\ UNCHANGED <<tmp, blobs, jobs, active_workers, queue, next_id, now,
                   op, tjob, upd, snap, aliased, req, resp, committed,
                   foreign, inits, crashed, observe, invoked, done>>
    /\ UNCHANGED <<deleted, wvars, svars, dvars>>

\* _rotate_jobs_file, second half: _ensure_jobs_file writes an empty store
\* (_cleanup_old_archives finds nothing older than the retention period)
_ensure_jobs_file(t) ==
    /\ ~crashed
    /\ pc[t] = "rot_ensure"
    /\ file' = IF file.kind = "missing" THEN Json(Empty) ELSE file
    /\ pc' = [pc EXCEPT ![t] = "write"]
    /\ UNCHANGED <<tmp, archive, blobs, jobs, active_workers, queue, next_id, now,
                   op, tjob, upd, snap, aliased, req, resp, committed,
                   foreign, inits, crashed, observe, invoked, done>>
    /\ UNCHANGED <<deleted, wvars, svars, dvars>>

\* _save_jobs_to_file after the rotation: keep the recent jobs of jobs_data,
\* write the temporary file and rename it over the jobs file
SaveRotated(t) ==
    /\ ~crashed
    /\ pc[t] = "write"
    /\ LET kept == filtered_jobs(recent_jobs(snap[t], now))
       IN /\ file' = Json(kept)
          /\ committed' = kept
          /\ jobs' = kept
    /\ snap' = [snap EXCEPT ![t] = Empty]
    /\ aliased' = {}
    /\ Finish(t, TRUE, blobs)
    /\ UNCHANGED <<tmp, archive, active_workers, next_id, now, foreign, inits,
                   crashed, observe, invoked, done>>
    /\ deleted' = Deleted(t)
    /\ UNCHANGED <<wvars, svars, dvars>>

\* _save_jobs_to_file when _check_file_rotation_needed raises (the stat() of
\* the jobs file fails with an OSError): the exception reaches the except
\* branch of _save_jobs_to_file, which prints it and returns; nothing is
\* written and the caller goes on
RotationCheckFails(t) ==
    /\ ~crashed
    /\ pc[t] = "save"
    /\ file.kind # "missing"
    /\ UNCHANGED <<file, committed, jobs, snap, aliased>>
    /\ Finish(t, TRUE, blobs)
    /\ UNCHANGED <<tmp, archive, active_workers, next_id, now, foreign, inits,
                   crashed, observe, invoked, done>>
    /\ deleted' = Deleted(t)
    /\ UNCHANGED <<wvars, svars, dvars>>

\* _rotate_jobs_file when writing the archive raises: its own except branch
\* prints the error and returns, the jobs file is left as it was and the save
\* goes on (a failure of _cleanup_old_archives, caught in the same way after
\* _ensure_jobs_file, has the effect of _ensure_jobs_file)
ArchiveFails(t) ==
    /\ ~crashed
    /\ pc[t] = "rot_archive"
    /\ file.kind # "missing"
    /\ pc' = [pc EXCEPT ![t] = "write"]
    /\ UNCHANGED <<file, archive>>
    /\ UNCHANGED <<tmp, blobs, jobs, active_workers, queue, next_id, now,
                   op, tjob, upd, snap, aliased, req, resp, committed,
                   foreign, inits, crashed, observe, invoked, done>>
    /\ UNCHANGED <<deleted, wvars, svars, dvars>>

\* ---------------------------------------------------------------- lookups
\* ids a client can name: those handed out so far, and those of the records
\* of the other deployment
KnownIds ==
    {<<deployment_id, k>> : k \in 1 .. next_id - 1}
        \cup {<<other_deployment_id, k>> : k \in 1 .. foreign}

\* the fallback of is_valid_job_id_for_deployment without its comparison of
\* the record's deployment_id
is_valid_job_id_any_deployment(id, js) ==
    \/ HasPrefix(id)
    \/ id \in DOMAIN js

\* is_valid_job_id_for_deployment, on the store js it has just loaded
is_valid_job_id_for_deployment(id, js) ==
    \/ HasPrefix(id)
    \/ /\ id \in DOMAIN js
       /\ js[id].deployment_id = deployment_id

\* get_job finds a record: the id is valid and the store holds it
get_job_found(id, js) ==
    /\ is_valid_job_id_for_deployment(id, js)
    /\ id \in DOMAIN js

\* ------------------------------------------------------------- the routes
\* POST /ocr/async (process_pdf_ocr_async) up to enqueue_job's _sync_jobs.
\* cid is the job_id (or request_id) form field of the client, NoId for none:
\* the route declares no such parameter and enqueue_job drops job_id from its
\* kwargs, so the id is always generated.
process_pdf_ocr_async(cid) ==
    /\ ~crashed
    /\ pc[Loop] = "idle"
    /\ next_id <= MaxJobs
    /\ pc' = [pc EXCEPT ![Loop] = "sync"]
    /\ op' = [op EXCEPT ![Loop] = "create"]
    /\ tjob' = [tjob EXCEPT ![Loop] = <<deployment_id, next_id>>]
    /\ next_id' = next_id + 1
    /\ req' = [op |-> "submit", id |-> <<deployment_id, next_id>>, cid |-> cid,
               existed |-> cid \in DOMAIN _load_jobs_from_file(file),
               nrec |-> Cardinality(DOMAIN _load_jobs_from_file(file)), t |-> now,
               hours_old |-> 0]
    /\ UNCHANGED <<file, tmp, archive, blobs, jobs, active_workers, queue, now,
                   upd, snap, aliased, resp, committed, foreign, inits, crashed, observe, invoked, done>>
    /\ UNCHANGED <<deleted, wvars, svars, dvars>>

\* GET /jobs/{job_id} (get_job_status): the 404 raised inside the try block is
\* caught by `except Exception` and answered as 500
get_job_status(id) ==
    /\ ~crashed
    /\ pc[Loop] = "idle"
    /\ LET js == _load_jobs_from_file(file)
       IN /\ jobs' = js
          /\ resp' = Observed([Resp("get", id, IF get_job_found(id, js) THEN 200 ELSE 500,
                                     get_job_found(id, js))
                                   EXCEPT !.existed = id \in DOMAIN js])
    /\ aliased' = {}
    /\ req' = NoReq
    /\ UNCHANGED <<file, tmp, archive, blobs, active_workers, queue, next_id, now,
                   pc, op, tjob, upd, snap, committed, foreign, inits, crashed, observe, invoked, done>>
    /\ UNCHANGED <<deleted, wvars, svars, dvars>>

\* DELETE /jobs/{job_id} up to delete_job's _sync_jobs: an id that is not valid
\* for the deployment is refused before anything is touched
delete_job_route(id) ==
    /\ ~crashed
    /\ pc[Loop] = "idle"
    /\ LET js == _load_jobs_from_file(file)
       IN IF is_valid_job_id_for_deployment(id, js)
          THEN /\ pc' = [pc EXCEPT ![Loop] = "sync"]
               /\ op' = [op EXCEPT ![Loop] = "delete"]
               /\ tjob' = [tjob EXCEPT ![Loop] = id]
               /\ req' = [NoReq EXCEPT !.op = "delete", !.id = id]
               /\ UNCHANGED <<jobs, aliased, resp>>
          ELSE /\ jobs' = js
               /\ aliased' = {}
               /\ resp' = Observed([Resp("delete", id, 404, FALSE)
                                        EXCEPT !.existed = id \in DOMAIN js])
               /\ req' = NoReq
               /\ UNCHANGED <<pc, op, tjob>>
    /\ UNCHANGED <<file, tmp, archive, blobs, active_workers, queue, next_id, now,
                   upd, snap, committed, foreign, inits, crashed, observe, invoked, done>>
    /\ UNCHANGED <<deleted, wvars, svars, dvars>>

\* a force_close that would also give back the worker slot of a running job
force_close_and_free_slot(id) ==
    /\ ~crashed
    /\ pc[Loop] = "idle"
    /\ LET js == _load_jobs_from_file(file)
       IN /\ jobs' = js
          /\ aliased' = {}
          /\ IF ~get_job_found(id, js)
             THEN /\ resp' = Observed(Resp("force", id, 404, FALSE))
                  /\ req' = NoReq
                  /\ UNCHANGED <<pc, op, tjob, upd>>
             ELSE IF js[id].status \notin {"processing", "queued", "started"}
             THEN /\ resp' = Observed(Resp("force", id, 400, TRUE))
                  /\ req' = NoReq
                  /\ UNCHANGED <<pc, op, tjob, upd>>
             ELSE /\ pc' = [pc EXCEPT ![Loop] = "sync"]
                  /\ op' = [op EXCEPT ![Loop] = "update"]
                  /\ tjob' = [tjob EXCEPT ![Loop] = id]
                  /\ upd' = [upd EXCEPT ![Loop] = StatusUpd("failed", FALSE, None, "forced")]
                  /\ req' = [NoReq EXCEPT !.op = "force", !.id = id]
                  /\ resp' = resp
    /\ active_workers' = IF get_job_found(id, _load_jobs_from_file(file))
                             /\ _load_jobs_from_file(file)[id].status = "processing"
                          THEN active_workers - 1 ELSE active_workers
    /\ UNCHANGED <<file, tmp, archive, blobs, queue, next_id, now,
                   snap, committed, foreign, inits, crashed, observe, invoked, done>>
    /\ UNCHANGED <<deleted, wvars, svars, dvars>>

\* POST /jobs/{job_id}/force_close up to update_job_status's _sync_jobs
force_close_job(id) ==
    /\ ~crashed
    /\ pc[Loop] = "idle"
    /\ LET js == _load_jobs_from_file(file)
       IN /\ jobs' = js
          /\ aliased' = {}
          /\ IF ~get_job_found(id, js)
             THEN /\ resp' = Observed(Resp("force", id, 404, FALSE))
                  /\ req' = NoReq
                  /\ UNCHANGED <<pc, op, tjob, upd>>
             ELSE IF js[id].status \notin {"processing", "queued", "started"}
             THEN /\ resp' = Observed(Resp("force", id, 400, TRUE))
                  /\ req' = NoReq
                  /\ UNCHANGED <<pc, op, tjob, upd>>
             ELSE /\ pc' = [pc EXCEPT ![Loop] = "sync"]
                  /\ op' = [op EXCEPT ![Loop] = "update"]
                  /\ tjob' = [tjob EXCEPT ![Loop] = id]
                  /\ upd' = [upd EXCEPT ![Loop] = StatusUpd("failed", FALSE, None, "forced")]
                  /\ req' = [NoReq EXCEPT !.op = "force", !.id = id]
                  /\ resp' = resp
    /\ UNCHANGED <<file, tmp, archive, blobs, active_workers, queue, next_id, now,
                   snap, committed, foreign, inits, crashed, observe, invoked, done>>
    /\ UNCHANGED <<deleted, wvars, svars, dvars>>

\* POST /cleanup_jobs?hours_old=n (cleanup_jobs) up to its _save_jobs_to_file.
\* self.jobs is used as the last operation of the process left it: there is
\* no _sync_jobs.  The rotation it forces archives the jobs file and leaves an
\* empty one; _cleanup_old_archives finds no archive older than the retention
\* period within the hours of a run.  datetime.fromisoformat raises on a
\* created_at that is absent or not a date, and the call then ends in its
\* except branch.
cleanup_jobs(n) ==
    /\ ~crashed
    /\ pc[Loop] = "idle"
    /\ LET rot == _check_file_rotation_needed(file, jobs)
           raises == \E k \in DOMAIN jobs :
                        jobs[k].created_at \in {NoCreatedAt, BadCreatedAt}
           old_job_ids == {k \in DOMAIN jobs : jobs[k].created_at <= now - n}
       IN /\ file' = IF rot THEN Json(Empty) ELSE file
          /\ archive' = IF rot THEN archive \cup DOMAIN _load_jobs_from_file(file)
                        ELSE archive
          /\ IF raises
             THEN /\ resp' = Observed(Resp("cleanup", NoId, 500, FALSE))
                  /\ req' = NoReq
                  /\ UNCHANGED <<jobs, aliased, blobs, pc, op>>
             ELSE /\ jobs' = [k \in DOMAIN jobs \ old_job_ids |-> jobs[k]]
                  /\ aliased' = {}
                  /\ blobs' = blobs \ old_job_ids
                  /\ pc' = [pc EXCEPT ![Loop] = "save"]
                  /\ op' = [op EXCEPT ![Loop] = "cleanup"]
                  /\ req' = [NoReq EXCEPT !.op = "cleanup", !.hours_old = n,
                                          !.nrec = Cardinality(old_job_ids),
                                          !.t = now]
                  /\ resp' = resp
    /\ UNCHANGED <<tmp, active_workers, queue, next_id, now, tjob, upd, snap,
                   committed, foreign, inits, crashed, observe, invoked, done>>
    /\ UNCHANGED <<deleted, wvars, svars, dvars>>

\* ------------------------------------------------------ the worker threads
\* a pool thread that would take the newest work item
process_job_newest_first(w) ==
    /\ ~crashed
    /\ pc[w] = "idle"
    /\ queue # << >>
    /\ queue' = SubSeq(queue, 1, Len(queue) - 1)
    /\ active_workers' = active_workers + 1
    /\ tjob' = [tjob EXCEPT ![w] = queue[Len(queue)]]
    /\ op' = [op EXCEPT ![w] = "update"]
    /\ upd' = [upd EXCEPT ![w] = StatusUpd("processing", TRUE, None, None)]
    /\ pc' = [pc EXCEPT ![w] = "sync"]
    /\ UNCHANGED <<file, tmp, archive, blobs, jobs, next_id, now, snap, aliased,
                   req, resp, committed, foreign, inits, crashed, observe, invoked, done>>
    /\ UNCHANGED <<deleted, wvars, svars, dvars>>

\* A pool thread takes the oldest work item and enters process_job
process_job(w) ==
    /\ ~crashed
    /\ pc[w] = "idle"
    /\ queue # << >>
    /\ queue' = Tail(queue)
    /\ active_workers' = active_workers + 1
    /\ tjob' = [tjob EXCEPT ![w] = Head(queue)]
    /\ op' = [op EXCEPT ![w] = "update"]
    /\ upd' = [upd EXCEPT ![w] = StatusUpd("processing", TRUE, None, None)]
    /\ pc' = [pc EXCEPT ![w] = "sync"]
    /\ UNCHANGED <<file, tmp, archive, blobs, jobs, next_id, now, snap, aliased,
                   req, resp, committed, foreign, inits, crashed, observe, invoked, done>>
    /\ UNCHANGED <<deleted, wvars, svars, dvars>>

\* func(*args, **task_kwargs) returns a result or raises
RunTask(w, ok) ==
    /\ ~crashed
    /\ pc[w] = "run"
    /\ op' = [op EXCEPT ![w] = "update"]
    /\ upd' = [upd EXCEPT ![w] = IF ok THEN StatusUpd("completed", FALSE, "full", None)
                                 ELSE StatusUpd("failed", FALSE, None, "exc")]
    /\ pc' = [pc EXCEPT ![w] = "sync"]
    /\ invoked' = [invoked EXCEPT ![tjob[w][2]] = @ + 1]
    /\ UNCHANGED <<file, tmp, archive, blobs, jobs, active_workers, queue, next_id, now,
                   tjob, snap, aliased, req, resp, committed,
                   foreign, inits, crashed, observe, done>>
    /\ UNCHANGED <<deleted, wvars, svars, dvars>>

\* process_job with the decrement at the end of its try block in place of the
\* finally block: it is skipped when the task has raised
ReleaseOnSuccessOnly(w) ==
    /\ ~crashed
    /\ pc[w] = "release"
    /\ active_workers' = IF upd[w].status = "failed" THEN active_workers
                         ELSE active_workers - 1
    /\ pc' = [pc EXCEPT ![w] = "idle"]
    /\ tjob' = [tjob EXCEPT ![w] = NoId]
    /\ upd' = [upd EXCEPT ![w] = NoUpd]
    /\ done' = done \cup {tjob[w]}
    /\ UNCHANGED <<file, tmp, archive, blobs, jobs, queue, next_id, now, op, snap,
                   aliased, req, resp, committed, foreign, inits, crashed, observe,
                   invoked>>
    /\ UNCHANGED <<deleted, wvars, svars, dvars>>

\* the finally block of process_job
Release(w) ==
    /\ ~crashed
    /\ pc[w] = "release"
    /\ active_workers' = active_workers - 1
    /\ pc' = [pc EXCEPT ![w] = "idle"]
    /\ tjob' = [tjob EXCEPT ![w] = NoId]
    /\ upd' = [upd EXCEPT ![w] = NoUpd]
    /\ done' = done \cup {tjob[w]}
    /\ UNCHANGED <<file, tmp, archive, blobs, jobs, queue, next_id, now, op, snap,
                   aliased, req, resp, committed, foreign, inits, crashed, observe,
                   invoked>>
    /\ UNCHANGED <<deleted, wvars, svars, dvars>>

\* the caller has what the last call returned
Return ==
    /\ resp # NoResp
    /\ resp' = NoResp
    /\ UNCHANGED <<file, tmp, archive, blobs, jobs, active_workers, queue, next_id, now,
                   pc, op, tjob, upd, snap, aliased, req, committed,
                   foreign, inits, crashed, observe, invoked, done>>
    /\ UNCHANGED <<deleted, wvars, svars, dvars>>

\* -------------------------------------------------------- the environment
\* an hour passes
Tick ==
    /\ ~crashed
    /\ now < MaxTime
    /\ now' = now + 1
    /\ UNCHANGED <<file, tmp, archive, blobs, jobs, active_workers, queue, next_id,
                   pc, op, tjob, upd, snap, aliased, req, resp, committed,
                   foreign, inits, crashed, observe, invoked, done>>
    /\ UNCHANGED <<deleted, wvars, svars, dvars>>

\* QueueManager.__init__ in another process on the same storage (a sibling
\* uvicorn worker, or a respawned one): _cleanup_old_queues unlinks the jobs
\* file and _ensure_jobs_file writes an empty one
QueueManager_init ==
    /\ ~crashed
    /\ inits < MaxInits
    /\ inits' = inits + 1
    /\ file' = Json(Empty)
    /\ committed' = Empty
    /\ UNCHANGED <<tmp, archive, blobs, jobs, active_workers, queue, next_id, now,
                   pc, op, tjob, upd, snap, aliased, req, resp, foreign, crashed, observe, invoked, done>>
    /\ UNCHANGED <<deleted, wvars, svars, dvars>>

\* enqueue_job in a process whose deployment id differs (the fallback id of
\* get_deployment_id is per process) on the same storage
OtherEnqueue ==
    /\ ~crashed
    /\ foreign < MaxForeign
    /\ foreign' = foreign + 1
    /\ LET js == Put(_load_jobs_from_file(file), <<other_deployment_id, foreign + 1>>,
                     job_data(other_deployment_id, now))
           rot == _check_file_rotation_needed(file, js)
           out == filtered_jobs(IF rot THEN recent_jobs(js, now) ELSE js)
       IN /\ file' = Json(out)
          /\ committed' = out
          /\ archive' = IF rot THEN archive \cup DOMAIN file.jobs ELSE archive
    /\ UNCHANGED <<tmp, blobs, jobs, active_workers, queue, next_id, now,
                   pc, op, tjob, upd, snap, aliased, req, resp, inits, crashed, observe, invoked, done>>
    /\ UNCHANGED <<deleted, wvars, svars, dvars>>

\* the jobs file is damaged or removed from outside while no request is
\* under way
DamageFile ==
    /\ ~crashed
    /\ pc[Loop] = "idle"
    /\ file.kind = "json"
    /\ \E k \in DamagedKinds \cup {"missing"} : file' = Damaged(k)
    /\ UNCHANGED <<tmp, archive, blobs, jobs, active_workers, queue, next_id, now,
                   pc, op, tjob, upd, snap, aliased, req, resp, committed,
                   foreign, inits, crashed, observe, invoked, done>>
    /\ UNCHANGED <<deleted, wvars, svars, dvars>>

\* the server process is killed while one of its threads is writing the
\* store, before the rename: its memory is gone, the files stay, and the
\* temporary file may have been written
Crash ==
    /\ ~crashed
    /\ \E t \in Threads : pc[t] \in {"save", "rot_archive", "rot_ensure", "write"}
    /\ crashed' = TRUE
    /\ tmp' \in {tmp, Orphan}
    /\ pc' = [t \in Threads |-> "dead"]
    /\ op' = [t \in Threads |-> "none"]
    /\ tjob' = [t \in Threads |-> NoId]
    /\ upd' = [t \in Threads |-> NoUpd]
    /\ snap' = [t \in Threads |-> Empty]
    /\ jobs' = Empty
    /\ aliased' = {}
    /\ queue' = << >>
    /\ active_workers' = 0
    /\ req' = NoReq
    /\ resp' = NoResp
    /\ UNCHANGED <<file, archive, blobs, next_id, now, committed, foreign, inits, observe, invoked, done>>
    /\ UNCHANGED <<deleted, wvars, svars, dvars>>

\* ----------------------------------------------------- the specifications
ClientIds == {NoId, <<"client", 1>>} \cup KnownIds
RequestIds == {<<"client", 1>>} \cup KnownIds

\* the steps of a write to the store, by any thread
StoreStep(t) ==
    \/ _sync_jobs(t)
    \/ enqueue_job(t)
    \/ update_job_status(t)
    \/ UpdateRecord(t)
    \/ _save_jobs_to_file(t)
    \/ _rotate_jobs_file(t)
    \/ _ensure_jobs_file(t)
    \/ SaveRotated(t)

\* the steps of a pool thread outside the jobs file: only process_job hands a
\* result to update_job_status, so only a pool thread writes to results_dir
PoolStep(w) ==
    \/ process_job(w)
    \/ _store_full_result(w)
    \/ \E ok \in BOOLEAN : RunTask(w, ok)
    \/ Release(w)

\* Spec: the server process under any interleaving of the event loop, which
\* takes submissions, and the pool threads
Next ==
    \/ process_pdf_ocr_async(NoId)
    \/ \E t \in Threads : StoreStep(t)
    \/ \E w \in Workers : PoolStep(w)

Spec == Init /\ [][Next]_vars

\* SpecStore: the writes of the event loop thread on storage that is shared:
\* a process of another deployment adds its jobs, another process initialises
\* its QueueManager, the clock advances, and the server process may be killed
NextStore ==
    \/ process_pdf_ocr_async(NoId)
    \/ \E id \in KnownIds : force_close_job(id)
    \/ StoreStep(Loop)
    \/ Tick
    \/ OtherEnqueue
    \/ QueueManager_init
    \/ Crash

SpecStore == Init /\ [][NextStore]_vars

\* SpecSeq: one thread inside the queue manager at a time (no concurrent
\* writer), every route, the clock and a process of another deployment; what
\* each call returns is recorded and handed to its caller before the next step
Alone(t) ==
    /\ resp = NoResp
    /\ \A u \in Threads \ {t} : pc[u] \in {"idle", "run"}

InitSeq ==
    /\ file = Json(Empty) /\ tmp = Missing /\ archive = {} /\ blobs = {}
    /\ jobs = Empty /\ active_workers = 0 /\ queue = << >> /\ next_id = 1 /\ now = 0
    /\ pc = [t \in Threads |-> "idle"] /\ op = [t \in Threads |-> "none"]
    /\ tjob = [t \in Threads |-> NoId] /\ upd = [t \in Threads |-> NoUpd]
    /\ snap = [t \in Threads |-> Empty] /\ aliased = {}
    /\ req = NoReq /\ resp = NoResp /\ committed = Empty
    /\ foreign = 0 /\ inits = 0 /\ crashed = FALSE
    /\ observe = TRUE
    /\ invoked = [k \in 1 .. MaxJobs |-> 0] /\ done = {} /\ deleted = {}
    /\ WarmupStart(FALSE, FALSE)
    /\ BackendStart("memory")
    /\ DeployStart

NextSeq ==
    \/ \E cid \in ClientIds : Alone(Loop) /\ process_pdf_ocr_async(cid)
    \/ \E id \in RequestIds : Alone(Loop) /\ get_job_status(id)
    \/ \E id \in RequestIds : Alone(Loop) /\ delete_job_route(id)
    \/ \E id \in KnownIds : Alone(Loop) /\ force_close_job(id)
    \/ \E t \in Threads : Alone(t) /\ StoreStep(t)
    \/ Alone(Loop) /\ delete_job(Loop)
    \/ \E w \in Workers : Alone(w) /\ PoolStep(w)
    \/ Alone(Loop) /\ pc[Loop] = "idle" /\ Tick
    \/ Alone(Loop) /\ pc[Loop] = "idle" /\ OtherEnqueue
    \/ Return

SpecSeq == InitSeq /\ [][NextSeq]_vars

\* SpecRotate: one thread inside the queue manager at a time, on a jobs file
\* that holds the records of two earlier jobs when the process takes its next
\* submission; a record may have come from another writer and carry no
\* created_at, or one that is not a date
CreatedAts == (0 .. MaxTime) \cup {NoCreatedAt, BadCreatedAt}
EarlierJob(c) ==
    [job_data(deployment_id, c) EXCEPT !.status = "failed", !.error = "exc",
                                       !.waiting = FALSE, !.args = << >>]
EarlierJobs(c1, c2) ==
    [k \in {JobId(1), JobId(2)} |-> EarlierJob(IF k = JobId(1) THEN c1 ELSE c2)]

InitRotate ==
    /\ \E c1 \in CreatedAts, c2 \in CreatedAts :
          /\ file = Json(filtered_jobs(EarlierJobs(c1, c2)))
          /\ committed = filtered_jobs(EarlierJobs(c1, c2))
    /\ tmp = Missing /\ archive = {} /\ blobs = {}
    /\ jobs = Empty /\ active_workers = 0 /\ queue = << >> /\ next_id = 3
    /\ now \in 0 .. MaxTime
    /\ pc = [t \in Threads |-> "idle"] /\ op = [t \in Threads |-> "none"]
    /\ tjob = [t \in Threads |-> NoId] /\ upd = [t \in Threads |-> NoUpd]
    /\ snap = [t \in Threads |-> Empty] /\ aliased = {}
    /\ req = NoReq /\ resp = NoResp
    /\ foreign = 0 /\ inits = 0 /\ crashed = FALSE
    /\ observe = FALSE
    /\ invoked = [k \in 1 .. MaxJobs |-> IF k < 3 THEN 1 ELSE 0]
    /\ done = {JobId(1), JobId(2)} /\ deleted = {}
    /\ WarmupStart(FALSE, FALSE)
    /\ BackendStart("memory")
    /\ DeployStart

NextRotate ==
    \/ Alone(Loop) /\ process_pdf_ocr_async(NoId)
    \/ \E t \in Threads : Alone(t) /\ StoreStep(t)
    \/ \E w \in Workers : Alone(w) /\ PoolStep(w)
    \/ Alone(Loop) /\ pc[Loop] = "idle" /\ Tick

SpecRotate == InitRotate /\ [][NextRotate]_vars

\* SpecCleanup: one thread inside the queue manager at a time: submissions,
\* the pool threads, the retention sweep of POST /cleanup_jobs, the clock and
\* a process of another deployment on the same storage
NextCleanup ==
    \/ Alone(Loop) /\ process_pdf_ocr_async(NoId)
    \/ \E n \in 1 .. MaxHoursOld : Alone(Loop) /\ cleanup_jobs(n)
    \/ \E t \in Threads : Alone(t) /\ StoreStep(t)
    \/ \E w \in Workers : Alone(w) /\ PoolStep(w)
    \/ Alone(Loop) /\ pc[Loop] = "idle" /\ Tick
    \/ Alone(Loop) /\ pc[Loop] = "idle" /\ OtherEnqueue
    \/ Return

SpecCleanup == InitSeq /\ [][NextCleanup]_vars

\* SpecIO: the requests of one server process, one at a time, on a disk whose
\* rotation check and archive write can fail
NextIO ==
    \/ process_pdf_ocr_async(NoId)
    \/ \E id \in KnownIds : force_close_job(id)
    \/ StoreStep(Loop)
    \/ RotationCheckFails(Loop)
    \/ ArchiveFails(Loop)
    \/ OtherEnqueue

SpecIO == Init /\ [][NextIO]_vars

\* SpecDamage: submissions and lookups of one server process, one at a time,
\* on a jobs file that can be damaged between two requests
NextDamage ==
    \/ Alone(Loop) /\ process_pdf_ocr_async(NoId)
    \/ \E id \in RequestIds : Alone(Loop) /\ get_job_status(id)
    \/ _sync_jobs(Loop)
    \/ enqueue_job(Loop)
    \/ _save_jobs_to_file(Loop)
    \/ _rotate_jobs_file(Loop)
    \/ _ensure_jobs_file(Loop)
    \/ SaveRotated(Loop)
    \/ Alone(Loop) /\ DamageFile
    \/ Return

SpecDamage == InitSeq /\ [][NextDamage]_vars

\* SpecForce: one submitted job, the pool thread that runs it and the
\* force_close requests of the event loop, under any interleaving (with one
\* record the store is never rotated)
NextForce ==
    \/ next_id = 1 /\ process_pdf_ocr_async(NoId)
    \/ \E id \in KnownIds : force_close_job(id)
    \/ \E t \in Threads :
          \/ _sync_jobs(t)
          \/ enqueue_job(t)
          \/ update_job_status(t)
          \/ UpdateRecord(t)
          \/ _save_jobs_to_file(t)
    \/ \E w \in Workers : PoolStep(w)

SpecForce == Init /\ [][NextForce]_vars

\* SpecDelete: two submitted jobs, the pool threads that run them and the
\* DELETE requests of the event loop, under any interleaving (with two
\* records the store is never rotated)
NextDelete ==
    \/ next_id < 3 /\ process_pdf_ocr_async(NoId)
    \/ \E id \in KnownIds : delete_job_route(id)
    \/ \E t \in Threads :
          \/ _sync_jobs(t)
          \/ enqueue_job(t)
          \/ update_job_status(t)
          \/ UpdateRecord(t)
          \/ delete_job(t)
          \/ _save_jobs_to_file(t)
    \/ \E w \in Workers : PoolStep(w)

SpecDelete == Init /\ [][NextDelete]_vars

\* ------------------------------------------------- the warmup coordinator
\* self.worker_id of process p (worker_<pid>)
worker_id(p) == p

\* _check_redis_warmup_status: the local status it leaves, given the value of
\* WARMUP_STATUS_KEY
_check_redis_warmup_status(local, shared) ==
    IF shared \in {"ready", "in_progress"} THEN shared ELSE local

\* WarmupService.__init__ in worker process p
WarmupService_init(p) ==
    /\ proc[p] = "down"
    /\ proc' = [proc EXCEPT ![p] = "up"]
    /\ warmup_status' = [warmup_status EXCEPT ![p] =
            IF use_redis_coordination
            THEN _check_redis_warmup_status("not_started", redis_status)
            ELSE "ready"]
    /\ UNCHANGED <<use_redis_coordination, warmup_files, redis_status, redis_lock,
                   spc, rpc, exercised, runs, hist, is_ready_result, overdue, polled>>
    /\ UNCHANGED skipped
    /\ UNCHANGED <<qvars, svars, dvars>>

\* start_warmup without the test of line 279: whatever the status, it goes on
\* to take the lock
start_warmup_unconditionally(p) ==
    /\ proc[p] = "up" /\ spc[p] = "idle"
    /\ IF ~use_redis_coordination
       THEN /\ warmup_status' = [warmup_status EXCEPT ![p] = "ready"]
            /\ spc' = spc
            /\ skipped' = (skipped \/ warmup_status[p] \in {"in_progress", "ready"})
       ELSE LET st == _check_redis_warmup_status(warmup_status[p], redis_status)
            IN /\ warmup_status' = [warmup_status EXCEPT ![p] = st]
               /\ spc' = [spc EXCEPT ![p] =
                            IF runs >= MaxRuns THEN "idle" ELSE "acquire"]
               /\ skipped' = (skipped \/ st \in {"in_progress", "ready"})
    /\ UNCHANGED <<use_redis_coordination, warmup_files, redis_status, redis_lock,
                   proc, rpc, exercised, runs, hist, is_ready_result, overdue, polled>>
    /\ UNCHANGED <<qvars, svars, dvars>>

\* start_warmup up to its decision to try for the lock
start_warmup(p) ==
    /\ proc[p] = "up" /\ spc[p] = "idle"
    /\ IF ~use_redis_coordination
       THEN /\ warmup_status' = [warmup_status EXCEPT ![p] = "ready"]
            /\ spc' = spc
            /\ skipped' = (skipped \/ warmup_status[p] \in {"in_progress", "ready"})
       ELSE LET st == _check_redis_warmup_status(warmup_status[p], redis_status)
            IN /\ warmup_status' = [warmup_status EXCEPT ![p] = st]
               /\ spc' = [spc EXCEPT ![p] =
                            IF st \in {"in_progress", "ready"} \/ runs >= MaxRuns
                            THEN "idle" ELSE "acquire"]
               /\ skipped' = (skipped \/ st \in {"in_progress", "ready"})
    /\ UNCHANGED <<use_redis_coordination, warmup_files, redis_status, redis_lock,
                   proc, rpc, exercised, runs, hist, is_ready_result, overdue, polled>>
    /\ UNCHANGED <<qvars, svars, dvars>>

\* _acquire_redis_lock: SET WARMUP_LOCK_KEY worker_id NX EX 600
_acquire_redis_lock(p) ==
    /\ spc[p] = "acquire"
    /\ IF redis_lock = {}
       THEN /\ redis_lock' = {worker_id(p)}
            /\ spc' = [spc EXCEPT ![p] = "locked"]
       ELSE /\ redis_lock' = redis_lock
            /\ spc' = [spc EXCEPT ![p] = "recheck"]
    /\ UNCHANGED <<use_redis_coordination, warmup_files, redis_status, proc,
                   warmup_status, rpc, exercised, runs, hist, is_ready_result,
                   overdue, polled>>
    /\ UNCHANGED skipped
    /\ UNCHANGED <<qvars, svars, dvars>>

\* start_warmup without the lock: after its sleep it checks the shared status
\* again and returns
Defer(p) ==
    /\ spc[p] = "recheck"
    /\ warmup_status' = [warmup_status EXCEPT ![p] =
            _check_redis_warmup_status(warmup_status[p], redis_status)]
    /\ spc' = [spc EXCEPT ![p] = "idle"]
    /\ UNCHANGED <<use_redis_coordination, warmup_files, redis_status, redis_lock,
                   proc, rpc, exercised, runs, hist, is_ready_result, overdue, polled>>
    /\ UNCHANGED skipped
    /\ UNCHANGED <<qvars, svars, dvars>>

\* start_warmup with the lock: the status becomes in_progress, locally and in
\* Redis, and the thread of _run_warmup is started (one such thread per
\* process at a time)
StartThread(p) ==
    /\ spc[p] = "locked" /\ rpc[p] = "idle"
    /\ warmup_status' = [warmup_status EXCEPT ![p] = "in_progress"]
    /\ redis_status' = "in_progress"
    /\ rpc' = [rpc EXCEPT ![p] = "run"]
    /\ spc' = [spc EXCEPT ![p] = "idle"]
    /\ runs' = runs + 1
    /\ overdue' = [overdue EXCEPT ![p] = FALSE]
    /\ polled' = [polled EXCEPT ![p] = FALSE]
    /\ UNCHANGED <<use_redis_coordination, warmup_files, redis_lock, proc,
                   exercised, hist, is_ready_result>>
    /\ UNCHANGED skipped
    /\ UNCHANGED <<qvars, svars, dvars>>

\* _run_warmup up to its assignment of self.warmup_status: ready when there is
\* no warmup file or the /ocr test succeeds (ok), failed otherwise
_run_warmup(p, ok) ==
    /\ rpc[p] = "run"
    /\ LET good == ~warmup_files \/ ok
       IN /\ warmup_status' = [warmup_status EXCEPT ![p] =
                                 IF good THEN "ready" ELSE "failed"]
          /\ rpc' = [rpc EXCEPT ![p] = IF good THEN "set_ready" ELSE "set_failed"]
          /\ exercised' = (exercised \/ (warmup_files /\ ok))
          /\ hist' = IF good THEN hist ELSE hist \cup {"failed"}
    /\ UNCHANGED <<use_redis_coordination, warmup_files, redis_status, redis_lock,
                   proc, spc, runs, is_ready_result, overdue, polled>>
    /\ UNCHANGED skipped
    /\ UNCHANGED <<qvars, svars, dvars>>

\* _set_redis_status at the end of _run_warmup
_set_redis_status(p) ==
    /\ rpc[p] \in {"set_ready", "set_failed"}
    /\ redis_status' = IF rpc[p] = "set_ready" THEN "ready" ELSE "failed"
    /\ rpc' = [rpc EXCEPT ![p] = "release"]
    /\ UNCHANGED <<use_redis_coordination, warmup_files, redis_lock, proc,
                   warmup_status, spc, exercised, runs, hist, is_ready_result,
                   overdue, polled>>
    /\ UNCHANGED skipped
    /\ UNCHANGED <<qvars, svars, dvars>>

\* _release_redis_lock: GET WARMUP_LOCK_KEY and the comparison with worker_id
_release_redis_lock(p) ==
    /\ rpc[p] = "release"
    /\ rpc' = [rpc EXCEPT ![p] = IF redis_lock = {worker_id(p)} THEN "delete" ELSE "idle"]
    /\ UNCHANGED <<use_redis_coordination, warmup_files, redis_status, redis_lock,
                   proc, warmup_status, spc, exercised, runs, hist, is_ready_result,
                   overdue, polled>>
    /\ UNCHANGED skipped
    /\ UNCHANGED <<qvars, svars, dvars>>

\* _release_redis_lock: DEL WARMUP_LOCK_KEY
DeleteLock(p) ==
    /\ rpc[p] = "delete"
    /\ redis_lock' = {}
    /\ rpc' = [rpc EXCEPT ![p] = "idle"]
    /\ UNCHANGED <<use_redis_coordination, warmup_files, redis_status, proc,
                   warmup_status, spc, exercised, runs, hist, is_ready_result,
                   overdue, polled>>
    /\ UNCHANGED skipped
    /\ UNCHANGED <<qvars, svars, dvars>>

\* is_ready, as GET /health calls it
is_ready(p) ==
    /\ proc[p] = "up"
    /\ LET st == IF use_redis_coordination
                 THEN _check_redis_warmup_status(warmup_status[p], redis_status)
                 ELSE warmup_status[p]
       IN /\ warmup_status' = [warmup_status EXCEPT ![p] = st]
          /\ is_ready_result' = [is_ready_result EXCEPT ![p] = (st = "ready")]
    /\ UNCHANGED <<use_redis_coordination, warmup_files, redis_status, redis_lock,
                   proc, spc, rpc, exercised, runs, hist, overdue, polled>>
    /\ UNCHANGED skipped
    /\ UNCHANGED <<qvars, svars, dvars>>

\* the warmup of process p runs past the bounded duration
DurationExceeded(p) ==
    /\ proc[p] = "up" /\ rpc[p] = "run" /\ ~overdue[p]
    /\ overdue' = [overdue EXCEPT ![p] = TRUE]
    /\ UNCHANGED <<use_redis_coordination, warmup_files, redis_status, redis_lock,
                   proc, warmup_status, spc, rpc, exercised, runs, hist,
                   is_ready_result, polled>>
    /\ UNCHANGED skipped
    /\ UNCHANGED <<qvars, svars, dvars>>

\* GET /warmup/status (warmup_status in health.py).  With the local status
\* in_progress it calls warmup_service.check_timeout(), and otherwise, after
\* get_status, reads warmup_service.start_time: WarmupService defines neither,
\* the AttributeError is answered as 500.
warmup_status_route(p) ==
    /\ proc[p] = "up"
    /\ IF warmup_status[p] = "in_progress"
       THEN /\ polled' = [polled EXCEPT ![p] = polled[p] \/ overdue[p]]
            /\ warmup_status' = warmup_status
       ELSE /\ polled' = polled
            /\ warmup_status' = [warmup_status EXCEPT ![p] =
                    IF use_redis_coordination
                    THEN _check_redis_warmup_status(warmup_status[p], redis_status)
                    ELSE warmup_status[p]]
    /\ UNCHANGED <<use_redis_coordination, warmup_files, redis_status, redis_lock,
                   proc, spc, rpc, exercised, runs, hist, is_ready_result, overdue>>
    /\ UNCHANGED skipped
    /\ UNCHANGED <<qvars, svars, dvars>>

\* the lease of the lock (600 s) runs out
LockExpire ==
    /\ redis_lock # {}
    /\ redis_lock' = {}
    /\ hist' = hist \cup {"lock_expired"}
    /\ UNCHANGED <<use_redis_coordination, warmup_files, redis_status, proc,
                   warmup_status, spc, rpc, exercised, runs, is_ready_result,
                   overdue, polled>>
    /\ UNCHANGED skipped
    /\ UNCHANGED <<qvars, svars, dvars>>

\* the status key (24 h) runs out
StatusExpire ==
    /\ redis_status # None
    /\ redis_status' = None
    /\ hist' = hist \cup {"status_expired"}
    /\ UNCHANGED <<use_redis_coordination, warmup_files, redis_lock, proc,
                   warmup_status, spc, rpc, exercised, runs, is_ready_result,
                   overdue, polled>>
    /\ UNCHANGED skipped
    /\ UNCHANGED <<qvars, svars, dvars>>

\* worker process p is killed: its threads are gone, the Redis keys stay
ProcessCrash(p) ==
    /\ proc[p] = "up"
    /\ Cardinality({q \in Procs : proc[q] = "dead"}) < MaxCrashes
    /\ proc' = [proc EXCEPT ![p] = "dead"]
    /\ spc' = [spc EXCEPT ![p] = "dead"]
    /\ rpc' = [rpc EXCEPT ![p] = "dead"]
    /\ hist' = hist \cup {"crash"}
    /\ UNCHANGED <<use_redis_coordination, warmup_files, redis_status, redis_lock,
                   warmup_status, exercised, runs, is_ready_result, overdue, polled>>
    /\ UNCHANGED skipped
    /\ UNCHANGED <<qvars, svars, dvars>>

\* SpecWarmup: the worker processes of one deployment and their warmup, in
\* either coordination mode, with or without warmup files
InitWarmup ==
    /\ file = Json(Empty) /\ tmp = Missing /\ archive = {} /\ blobs = {}
    /\ jobs = Empty /\ active_workers = 0 /\ queue = << >> /\ next_id = 1 /\ now = 0
    /\ pc = [t \in Threads |-> "idle"] /\ op = [t \in Threads |-> "none"]
    /\ tjob = [t \in Threads |-> NoId] /\ upd = [t \in Threads |-> NoUpd]
    /\ snap = [t \in Threads |-> Empty] /\ aliased = {}
    /\ req = NoReq /\ resp = NoResp /\ committed = Empty
    /\ foreign = 0 /\ inits = 0 /\ crashed = FALSE
    /\ observe = FALSE
    /\ invoked = [k \in 1 .. MaxJobs |-> 0] /\ done = {} /\ deleted = {}
    /\ \E redis \in BOOLEAN, files \in BOOLEAN : WarmupStart(redis, files)
    /\ BackendStart("memory")
    /\ DeployStart

WarmupStep(p) ==
    \/ WarmupService_init(p)
    \/ start_warmup(p)
    \/ _acquire_redis_lock(p)
    \/ Defer(p)
    \/ StartThread(p)
    \/ \E ok \in BOOLEAN : _run_warmup(p, ok)
    \/ _set_redis_status(p)
    \/ _release_redis_lock(p)
    \/ DeleteLock(p)
    \/ is_ready(p)
    \/ DurationExceeded(p)
    \/ warmup_status_route(p)
    \/ ProcessCrash(p)

NextWarmup ==
    \/ \E p \in Procs : WarmupStep(p)
    \/ LockExpire
    \/ StatusExpire

SpecWarmup == InitWarmup /\ [][NextWarmup]_vars

\* ------------------------------------------------- the job-store backends
\* InMemoryJobStore (src/src/services/memory_job_store.py), RedisJobStore
\* (src/src/services/redis_job_store.py) and JobDatabase
\* (src/src/services/job_db.py) behind one interface.  A caller is a thread
\* or a process that shares the store; the key of a Redis job and the row of
\* a SQLite job are the entries of `store`.

\* What a caller hands to create_job: the filename marks whose record it is.
new_job_data(c) == [status |-> "queued", filename |-> c, error |-> None]

\* The `updates` dictionaries of the callers (JobUpdate has status, error and
\* rq_job_id among its fields).
Updates ==
    { [f \in {"status"} |-> "failed"],
      [f \in {"error"} |-> "boom"],
      [f \in {"rq_job_id"} |-> "rq1"] }

\* dict.update(updates) followed by the assignment of updated_at.
dict_update(rec, updates, t) ==
    [f \in DOMAIN rec \cup DOMAIN updates \cup {"updated_at"} |->
        IF f = "updated_at" THEN t
        ELSE IF f \in DOMAIN updates THEN updates[f] ELSE rec[f]]

\* The columns the UPDATE statement of JobDatabase.update_job can name, among
\* the fields modelled.
sql_columns == {"status", "filename", "error"}

sql_update(rec, updates, t) ==
    [f \in DOMAIN rec |->
        IF f = "updated_at" THEN t
        ELSE IF f \in DOMAIN updates /\ f \in sql_columns THEN updates[f]
        ELSE rec[f]]

Returned(c, call, value) ==
    /\ bpc' = [bpc EXCEPT ![c] = "idle"]
    /\ barg' = [barg EXCEPT ![c] = call]
    /\ bret' = [bret EXCEPT ![c] = IF value THEN "true" ELSE "false"]
    /\ trues' = IF call.op = "create" /\ value
                THEN [trues EXCEPT ![call.id] = @ \cup {c}] ELSE trues

\* The write of create_job: job_data with its timestamps under job_id.
Insert(c, id) ==
    /\ store' = [k \in DOMAIN store \cup {id} |->
                    IF k = id THEN dict_update(new_job_data(c), << >>, bclock + 1)
                    ELSE store[k]]
    /\ bclock' = bclock + 1

\* create_job(job_id, job_data).  InMemoryJobStore tests and writes under
\* self._lock; JobDatabase relies on the PRIMARY KEY of the INSERT;
\* RedisJobStore asks EXISTS here and writes in a later command.
create_job(c, id) ==
    /\ bpc[c] = "idle" /\ ncalls < MaxCalls
    /\ ncalls' = ncalls + 1
    /\ LET call == [NoCall EXCEPT !.op = "create", !.id = id] IN
       IF id \in DOMAIN store
       THEN Returned(c, call, FALSE) /\ UNCHANGED <<store, bclock>>
       ELSE IF backend = "redis"
       THEN /\ bpc' = [bpc EXCEPT ![c] = "setex_create"]
            /\ barg' = [barg EXCEPT ![c] = call]
            /\ bret' = [bret EXCEPT ![c] = "none"]
            /\ UNCHANGED <<store, bclock, trues>>
       ELSE Insert(c, id) /\ Returned(c, call, TRUE)
    /\ UNCHANGED backend
    /\ UNCHANGED <<qvars, wvars, dvars>>

\* RedisJobStore.create_job, from the SETEX on.
redis_create_setex(c) ==
    /\ bpc[c] = "setex_create"
    /\ Insert(c, barg[c].id)
    /\ Returned(c, barg[c], TRUE)
    /\ UNCHANGED <<backend, ncalls>>
    /\ UNCHANGED <<qvars, wvars, dvars>>

\* update_job(job_id, updates).  InMemoryJobStore updates under self._lock;
\* JobDatabase runs one UPDATE over the columns it knows and reports whether
\* a row matched; RedisJobStore reads the job here and writes it back in a
\* later command.
update_job(c, id, updates) ==
    /\ bpc[c] = "idle" /\ ncalls < MaxCalls
    /\ ncalls' = ncalls + 1
    /\ LET call == [NoCall EXCEPT !.op = "update", !.id = id, !.updates = updates] IN
       IF id \notin DOMAIN store
       THEN Returned(c, call, FALSE) /\ UNCHANGED <<store, bclock>>
       ELSE IF backend = "redis"
       THEN /\ bpc' = [bpc EXCEPT ![c] = "setex_update"]
            /\ barg' = [barg EXCEPT ![c] = [call EXCEPT !.cur = store[id]]]
            /\ bret' = [bret EXCEPT ![c] = "none"]
            /\ UNCHANGED <<store, bclock, trues>>
       ELSE /\ store' = [store EXCEPT ![id] =
                            IF backend = "sqlite"
                            THEN sql_update(@, updates, bclock + 1)
                            ELSE dict_update(@, updates, bclock + 1)]
            /\ bclock' = bclock + 1
            /\ Returned(c, call, TRUE)
    /\ UNCHANGED backend
    /\ UNCHANGED <<qvars, wvars, dvars>>

\* RedisJobStore.update_job, from the SETEX on: current_data as it was read.
redis_update_setex(c) ==
    /\ bpc[c] = "setex_update"
    /\ store' = [k \in DOMAIN store \cup {barg[c].id} |->
                    IF k = barg[c].id
                    THEN dict_update(barg[c].cur, barg[c].updates, bclock + 1)
                    ELSE store[k]]
    /\ bclock' = bclock + 1
    /\ Returned(c, barg[c], TRUE)
    /\ UNCHANGED <<backend, ncalls>>
    /\ UNCHANGED <<qvars, wvars, dvars>>

InitBackend ==
    /\ QueueStart
    /\ WarmupStart(FALSE, FALSE)
    /\ \E b \in Backends : BackendStart(b)
    /\ DeployStart

NextBackend ==
    \/ \E c \in Callers, id \in StoreIds : create_job(c, id)
    \/ \E c \in Callers, id \in StoreIds, updates \in Updates : update_job(c, id, updates)
    \/ \E c \in Callers : redis_create_setex(c)
    \/ \E c \in Callers : redis_update_setex(c)

SpecBackend == InitBackend /\ [][NextBackend]_vars

\* ------------------------------------------------- the deployment identity
\* DeploymentIDManager.get_deployment_id (src/src/utils/deployment_id.py) and
\* WarmupService._get_container_deployment_id
\* (src/src/services/warmup_service.py), both over /tmp/docling_deployment_id.
\* An identifier is a positive number, 0 stands for no identifier; uuid4 is
\* the next unused number.
\* get_deployment_id up to the flock; the identifier cached in the process
\* is returned at once.
get_deployment_id(p) ==
    /\ dpc[p] = "idle"
    /\ IF cached[p] # 0
       THEN /\ returned' = returned \cup {cached[p]}
            /\ UNCHANGED <<flock, dpc>>
       ELSE /\ flock = {}
            /\ flock' = {p}
            /\ dpc' = [dpc EXCEPT ![p] = "locked"]
            /\ UNCHANGED returned
    /\ UNCHANGED <<deployment_file, local_id, cached, generated>>
    /\ UNCHANGED <<qvars, wvars, svars>>

\* The test of the file under the lock: an identifier found is cached and
\* returned, and the lock file is closed.
ReadLocked(p) ==
    /\ dpc[p] = "locked"
    /\ IF deployment_file # 0
       THEN /\ cached' = [cached EXCEPT ![p] = deployment_file]
            /\ returned' = returned \cup {deployment_file}
            /\ dpc' = [dpc EXCEPT ![p] = "idle"]
            /\ flock' = {}
       ELSE /\ dpc' = [dpc EXCEPT ![p] = "generate"]
            /\ UNCHANGED <<cached, returned, flock>>
    /\ UNCHANGED <<deployment_file, local_id, generated>>
    /\ UNCHANGED <<qvars, wvars, svars>>

\* uuid4, the temporary file, its rename over the deployment file, and the
\* return.
GenerateLocked(p) ==
    /\ dpc[p] = "generate" /\ generated < MaxIds
    /\ generated' = generated + 1
    /\ deployment_file' = generated + 1
    /\ cached' = [cached EXCEPT ![p] = generated + 1]
    /\ returned' = returned \cup {generated + 1}
    /\ dpc' = [dpc EXCEPT ![p] = "idle"]
    /\ flock' = {}
    /\ UNCHANGED local_id
    /\ UNCHANGED <<qvars, wvars, svars>>

\* _get_container_deployment_id up to its test of the file; no lock is taken
\* and nothing is cached.
_get_container_deployment_id(p) ==
    /\ dpc[p] = "idle"
    /\ IF deployment_file # 0
       THEN /\ returned' = returned \cup {deployment_file}
            /\ UNCHANGED dpc
       ELSE /\ dpc' = [dpc EXCEPT ![p] = "open"]
            /\ UNCHANGED returned
    /\ UNCHANGED <<deployment_file, flock, local_id, cached, generated>>
    /\ UNCHANGED <<qvars, wvars, svars>>

\* uuid4 and open(deployment_file, 'w'), which empties the file.
OpenForWrite(p) ==
    /\ dpc[p] = "open" /\ generated < MaxIds
    /\ generated' = generated + 1
    /\ local_id' = [local_id EXCEPT ![p] = generated + 1]
    /\ deployment_file' = 0
    /\ dpc' = [dpc EXCEPT ![p] = "write"]
    /\ UNCHANGED <<flock, cached, returned>>
    /\ UNCHANGED <<qvars, wvars, svars>>

\* f.write(deployment_id) and the return.
WriteId(p) ==
    /\ dpc[p] = "write"
    /\ deployment_file' = local_id[p]
    /\ returned' = returned \cup {local_id[p]}
    /\ dpc' = [dpc EXCEPT ![p] = "idle"]
    /\ UNCHANGED <<flock, local_id, cached, generated>>
    /\ UNCHANGED <<qvars, wvars, svars>>

InitDeploy ==
    /\ QueueStart
    /\ WarmupStart(TRUE, FALSE)
    /\ BackendStart("memory")
    /\ DeployStart

NextDeploy ==
    \E p \in Procs :
        \/ get_deployment_id(p)
        \/ ReadLocked(p)
        \/ GenerateLocked(p)
        \/ _get_container_deployment_id(p)
        \/ OpenForWrite(p)
        \/ WriteId(p)

SpecDeploy == InitDeploy /\ [][NextDeploy]_vars

\* ---------------------------------------------------------------- claims
Stored == _load_jobs_from_file(file)
Processing(js) == {k \in DOMAIN js : js[k].status = "processing"}
Terminal(st) == st \in {"completed", "failed"}

\* C1: at every point in time the number of jobs persisted with status
\* processing is at most the worker limit max_workers.
C1_ProcessingWithinLimit ==
    Cardinality(Processing(Stored)) <= max_workers

\* C2: once the persisted status of a job is completed or failed, no later
\* step changes it.
C2_TerminalIsFinal ==
    [][\A k \in DOMAIN Stored :
          (Terminal(Stored[k].status) /\ k \in DOMAIN _load_jobs_from_file(file'))
              => _load_jobs_from_file(file')[k].status = Stored[k].status]_vars

\* C3: a submission whose client-supplied job id already exists is answered
\* 409 with that id and creates no record.
C3_DuplicateIdConflict ==
    (resp.op = "submit" /\ resp.existed)
        => (resp.code = 409 /\ resp.id = resp.cid /\ ~resp.created)

\* C4: a valid submission is answered 200 with the id of a record that has
\* been created: the client's id when one is supplied and free, a generated id
\* otherwise.
C4_SubmitReturnsJobId ==
    resp.op = "submit"
        => /\ resp.code = 200
           /\ resp.created
           /\ (resp.cid # NoId /\ ~resp.existed) => resp.id = resp.cid

\* C5: whatever a reader loads from the jobs file, at any moment of a write,
\* is the complete state some write committed: never partial, empty or missing.
C5_ReadersSeeCommitted ==
    ~crashed => Stored = committed

\* C6: after the writing process is killed inside a store write, before the
\* final rename, the next read returns exactly the committed job records.
C6_CrashKeepsCommitted ==
    crashed => Stored = committed

\* C7: the jobs persisted before another QueueManager is initialised on the
\* same storage are still returned by get_job afterwards.
C7_JobsSurviveInit ==
    [][inits' = inits + 1 =>
          \A k \in DOMAIN Stored :
              get_job_found(k, Stored) => get_job_found(k, _load_jobs_from_file(file'))]_vars

\* C8: when threads update or create different jobs concurrently, the store
\* holds every change once the operations have returned: a job whose creation
\* returned is stored, and a job whose worker has returned from marking it
\* processing is stored as processing (no rotation having taken place).
Created(k) == ~(pc[Loop] # "idle" /\ tjob[Loop] = <<deployment_id, k>>)
C8_BothChangesKept ==
    archive = {} =>
        /\ \A k \in 1 .. next_id - 1 :
              Created(k) => <<deployment_id, k>> \in DOMAIN Stored
        /\ \A w \in Workers :
              pc[w] = "run" =>
                  /\ tjob[w] \in DOMAIN Stored
                  /\ Stored[tjob[w]].status = "processing"

\* C9: with no concurrent writer, after update_job_status(J, s) has returned
\* for an existing job J (from a worker, or from force_close answering 200),
\* get_job(J) returns a record with status s.
C9_ReadAfterWrite ==
    (resp.op \in {"update", "force"} /\ resp.found /\ resp.code = 200)
        => /\ get_job_found(resp.id, Stored)
           /\ Stored[resp.id].status = resp.status

C11_TaskFailureRecorded ==
    \A w \in Workers :
        (pc[w] = "release" /\ upd[w].error = "exc")
            => /\ tjob[w] \in DOMAIN Stored
               /\ Stored[tjob[w]].status = "failed"
               /\ Stored[tjob[w]].error = "exc"

\* C12: the task function of an accepted job is called exactly once: never
\* twice, and once by the time the job's process_job has ended.
C12_InvokedExactlyOnce ==
    \A k \in 1 .. MaxJobs :
        /\ invoked[k] <= 1
        /\ JobId(k) \in done => invoked[k] = 1

\* C13: every job enqueue_job returned an id for ends completed or failed in
\* the store: when the executor's queue is empty and every thread has left
\* the queue manager, so that nothing is left to run for any job, no job is
\* absent from the store or still queued or processing.
Quiescent == queue = << >> /\ \A t \in Threads : pc[t] = "idle"
C13_AllJobsSettle ==
    Quiescent =>
        \A k \in 1 .. next_id - 1 :
            /\ JobId(k) \in DOMAIN Stored
            /\ Terminal(Stored[JobId(k)].status)

\* C14: active_workers stays within 0 .. max_workers and counts exactly the
\* pool threads that are inside process_job, on the success path and on the
\* exception path alike; it is 0 whenever none is.
Busy == {w \in Workers : pc[w] \notin {"idle", "dead"}}
C14_ActiveWorkersBounded ==
    /\ active_workers \in 0 .. max_workers
    /\ active_workers = Cardinality(Busy)
    /\ Busy = {} => active_workers = 0
C14_Witness ==
    /\ Busy = {} /\ active_workers = 0
    /\ \E k \in 1 .. MaxJobs :
          /\ JobId(k) \in done /\ JobId(k) \in DOMAIN Stored
          /\ Stored[JobId(k)].status = "failed" /\ Stored[JobId(k)].error = "exc"
    /\ \E k \in 1 .. MaxJobs :
          /\ JobId(k) \in done /\ JobId(k) \in DOMAIN Stored
          /\ Stored[JobId(k)].status = "completed"

\* C15: with Redis coordination, worker processes that call start_warmup
\* concurrently run the warmup once in the deployment: as long as no run has
\* failed, no process was killed and no key has expired, at most one
\* _run_warmup thread has been started.
C15_SingleWarmupRun ==
    (use_redis_coordination /\ hist = {}) => runs <= 1

\* C16: a runner that completes its release never deletes a lock that another
\* runner holds at that moment.
C16_ReleaseOnlyOwnLock ==
    [][\A p \in Procs :
          (rpc[p] = "delete" /\ rpc'[p] = "idle"
               /\ redis_lock # {} /\ redis_lock # {worker_id(p)})
              => redis_lock' = redis_lock]_vars

\* C17: is_ready() returns true only after the pipeline has successfully
\* processed a document in this deployment.
C17_ReadyOnlyAfterExercise ==
    \A p \in Procs : is_ready_result[p] => exercised

\* C18: a warmup that is in_progress past the bounded duration is forced to a
\* terminal status and its lock released: once /warmup/status has been asked
\* about the overdue warmup of a process whose run is still going on, the
\* status of that process is no longer in_progress and it holds no lock.
C18_TimeoutForcesTerminal ==
    \A p \in Procs :
        (polled[p] /\ rpc[p] = "run")
            => /\ warmup_status[p] # "in_progress"
               /\ redis_lock # {worker_id(p)}

\* the shared status says in_progress but the process that set it is gone:
\* no live process is starting or running a warmup, and the lock has expired
Abandoned ==
    /\ use_redis_coordination
    /\ redis_status = "in_progress"
    /\ redis_lock = {}
    /\ \E q \in Procs : proc[q] = "dead"
    /\ \A q \in Procs : proc[q] = "up" => spc[q] = "idle" /\ rpc[q] = "idle"

\* C19: after the holder crashed with the shared status in_progress and the
\* lock lease has expired, a start_warmup of a sibling goes on to acquire the
\* lock (and so to run the warmup).
C19_SiblingTakesOver ==
    [][\A p \in Procs :
          (Abandoned /\ runs < MaxRuns /\ start_warmup(p))
              => spc'[p] = "acquire"]_vars

\* the status, local to p or shared, is already in_progress or ready
AlreadyStarted(p) ==
    \/ warmup_status[p] \in {"in_progress", "ready"}
    \/ use_redis_coordination /\ redis_status \in {"in_progress", "ready"}

\* C20 as stated: when the status (local or shared) is already in_progress or
\* ready, start_warmup starts no warmup thread, acquires no lock and changes
\* no status.
C20_StartWarmupChangesNothing ==
    [][\A p \in Procs :
          (AlreadyStarted(p) /\ start_warmup(p))
              => /\ spc'[p] = "idle" /\ rpc' = rpc /\ runs' = runs
                 /\ redis_lock' = redis_lock
                 /\ redis_status' = redis_status
                 /\ warmup_status' = warmup_status]_vars

\* C20 amended: when the status (local or shared) is already in_progress or
\* ready, start_warmup starts no warmup thread, acquires no lock and leaves
\* the shared status and the status of every other process alone; the local
\* status of the caller becomes the shared one when that is in_progress or
\* ready, and is otherwise unchanged.
C20_StartWarmupIdempotent ==
    [][\A p \in Procs :
          (AlreadyStarted(p) /\ start_warmup(p))
              => /\ spc'[p] = "idle" /\ rpc' = rpc /\ runs' = runs
                 /\ redis_lock' = redis_lock
                 /\ redis_status' = redis_status
                 /\ warmup_status' = [warmup_status EXCEPT ![p] =
                        IF use_redis_coordination
                           /\ redis_status \in {"in_progress", "ready"}
                        THEN redis_status ELSE warmup_status[p]]]_vars

\* a start_warmup has returned at its status test while another process was
\* running the warmup, and nothing but that one run was started
C20_Witness ==
    /\ skipped /\ use_redis_coordination
    /\ runs = 1
    /\ \E p, q \in Procs :
          /\ p # q /\ rpc[q] = "run" /\ redis_lock = {worker_id(q)}
          /\ proc[p] = "up" /\ spc[p] = "idle" /\ rpc[p] = "idle"
          /\ warmup_status[p] = "in_progress"

\* C21: when a save has found the store above the record-count threshold and
\* has gone through one rotation cycle, the jobs file it leaves holds no more
\* than max_jobs_per_file records.
C21_RotationShrinksStore ==
    [][\A t \in Threads :
          (pc[t] = "write" /\ SaveRotated(t))
              => Cardinality(DOMAIN file'.jobs) <= max_jobs_per_file]_vars

\* the values a record holds in its args and kwargs
Payload(rec) ==
    {rec.args[i] : i \in DOMAIN rec.args}
        \cup {rec.kwargs.args[i] : i \in DOMAIN rec.kwargs.args}

\* C23: no record of the persisted job store holds the raw input bytes of a
\* submission.
C23_NoRawBytesStored ==
    \A k \in DOMAIN Stored : RawBytes \notin Payload(Stored[k])

\* the change the store operation of thread t is making is in the jobs file
\* after the step
ChangePersisted(t) ==
    /\ op[t] = "create" => tjob[t] \in DOMAIN file'.jobs
    /\ op[t] = "update" => /\ tjob[t] \in DOMAIN file'.jobs
                           /\ file'.jobs[tjob[t]].status = upd[t].status

\* C22: a save whose rotation check or archiving step fails with an I/O error
\* still persists the caller's change: whichever way the save ends, the
\* created or updated record is in the jobs file.
C22_SavePersistsDespiteIOError ==
    [][\A t \in Threads :
          (RotationCheckFails(t) \/ SaveRotated(t)) => ChangePersisted(t)]_vars

\* C24: a full-result blob never outlives its job record: whenever no store
\* operation is under way, every blob of results_dir belongs to a record of
\* the job store.
C24_BlobHasOwningRecord ==
    (\A t \in Threads : pc[t] \in {"idle", "run"}) => blobs \subseteq DOMAIN Stored

\* C25: GET /jobs/{job_id} for a job id that is unknown or has been deleted
\* answers 404, not a server error.
C25_GetUnknownIs404 ==
    (resp.op = "get" /\ ~resp.found) => resp.code = 404

\* C26: force_close of a job that is completed or failed is rejected and
\* leaves the record as it is, and the update of force_close is applied only
\* to a job whose stored status is processing, queued or started.
C26_ForceCloseOnlyOpenJobs ==
    [][/\ \A id \in KnownIds :
            (force_close_job(id) /\ get_job_found(id, Stored)
                                 /\ Terminal(Stored[id].status))
                => pc'[Loop] = "idle" /\ file' = file
       /\ (pc[Loop] = "update" /\ tjob[Loop] \in DOMAIN jobs
                                /\ tjob[Loop] \in DOMAIN Stored /\ UpdateRecord(Loop))
                => Stored[tjob[Loop]].status \in {"processing", "queued", "started"}]_vars

\* C30: loading a jobs file that is missing, empty, not valid JSON or not a
\* JSON object yields the empty store and raises no error: _sync_jobs leaves
\* self.jobs empty and its caller goes on.
C30_DamagedFileLoadsEmpty ==
    [][\A t \in Threads :
          (file.kind # "json" /\ _sync_jobs(t))
              => jobs' = Empty /\ pc'[t] = "modify"]_vars

\* C27: in each job-store backend, among the create calls made with one
\* job_id, in any order or interleaving, at most one returns true, and the
\* record stored under the id is the one the successful call wrote.
C27_SingleCreateWins ==
    \A id \in StoreIds :
        /\ Cardinality(trues[id]) <= 1
        /\ \A c \in trues[id] : id \in DOMAIN store /\ store[id].filename = c

\* What update(job_id, fields) owes its caller at the step it returns.
UpdateContract(c, id, updates) ==
    IF id \notin DOMAIN store
    THEN bret'[c] = "false" /\ store' = store
    ELSE /\ bret'[c] = "true"
         /\ DOMAIN store' = DOMAIN store
         /\ \A k \in DOMAIN store \ {id} : store'[k] = store[k]
         /\ DOMAIN store'[id] \subseteq DOMAIN store[id] \cup DOMAIN updates
         /\ \A f \in DOMAIN updates :
                f \in DOMAIN store'[id] /\ store'[id][f] = updates[f]
         /\ store'[id].updated_at > store[id].updated_at
         /\ \A f \in DOMAIN store[id] \ (DOMAIN updates \cup {"updated_at"}) :
                f \in DOMAIN store'[id] /\ store'[id][f] = store[id][f]

\* C28: in each job-store backend, update on an absent job returns false and
\* leaves the store unchanged; on a present job it returns true, sets exactly
\* the named fields, refreshes updated_at, and leaves every other field of
\* the job and every other job unchanged.
C28_UpdateSetsNamedFieldsOnly ==
    [][\A c \in Callers :
          /\ \A id \in StoreIds, updates \in Updates :
                (update_job(c, id, updates) /\ bpc'[c] = "idle")
                    => UpdateContract(c, id, updates)
          /\ redis_update_setex(c)
                    => UpdateContract(c, barg[c].id, barg[c].updates)]_vars

\* C29: for any interleaving of the calls that obtain the deployment
\* identifier in the worker processes of one deployment, every call returns
\* the same identifier, and an identifier is generated at most once.
C29_OneDeploymentId ==
    Cardinality(returned) <= 1 /\ generated <= 1

\* get_job: the result it returns for a record of the store js, the full
\* result of results_dir merged back into a completed job
get_job_result(id, js, bl) ==
    IF js[id].status = "completed" /\ id \in bl THEN "full" ELSE js[id].result

\* C31: whenever get_job can be served (the event loop is free) and finds a
\* job completed, it returns the full result of the task, and the record of
\* the jobs file holds the summary only.
C31_CompletedHasFullResult ==
    pc[Loop] = "idle" =>
        \A k \in DOMAIN Stored :
            (get_job_found(k, Stored) /\ Stored[k].status = "completed")
                => /\ get_job_result(k, Stored, blobs) = "full"
                   /\ Stored[k].result = "summary"

\* C32: in every record of the jobs file, result is set only if the status is
\* completed and error is set only if the status is failed, whatever the
\* worker updates and force_close calls that have been applied.
C32_ResultAndErrorMatchStatus ==
    \A k \in DOMAIN Stored :
        /\ Stored[k].result # None => Stored[k].status = "completed"
        /\ Stored[k].error # None => Stored[k].status = "failed"
C32_Witness ==
    \E k \in DOMAIN Stored :
        /\ k \in blobs
        /\ Stored[k].status = "failed" /\ Stored[k].error = "forced"
        /\ Stored[k].result = None

\* C33: when enqueue_job hands the task of a job to the worker pool, the
\* record of the job is in the jobs file, queued, not active and waiting.
C33_RecordBeforeSubmit ==
    [][(op[Loop] = "create" /\ Len(queue') > Len(queue))
          => /\ tjob[Loop] \in DOMAIN _load_jobs_from_file(file')
             /\ LET rec == _load_jobs_from_file(file')[tjob[Loop]]
                IN rec.status = "queued" /\ ~rec.active /\ rec.waiting]_vars

KeptByRotation(rec, t) ==
    \/ rec.created_at \in {NoCreatedAt, BadCreatedAt}
    \/ (rec.created_at >= 0 /\ rec.created_at > t - 1)
C36_CleanupRemovesExactlyOld ==
    [][(op[Loop] = "cleanup" /\ pc[Loop] \in {"save", "write"} /\ pc'[Loop] = "idle")
          => LET old == {k \in DOMAIN committed :
                            committed[k].created_at <= req.t - req.hours_old}
             IN /\ DOMAIN _load_jobs_from_file(file') = DOMAIN committed \ old
                /\ \A k \in DOMAIN committed \ old :
                       _load_jobs_from_file(file')[k] = committed[k]
                /\ blobs' \cap old = {}
                /\ resp'.removed = Cardinality(old)]_vars

\* C37: force_close of a job only rewrites the record of that job (failed,
\* not active, not waiting, with the force-close error): its update changes
\* no other record of self.jobs, none of its steps changes active_workers,
\* the executor's queue or what a pool thread is doing, and active_workers
\* goes down only when a pool thread leaves process_job.
ForceCloseStep ==
    \/ \E id \in KnownIds : force_close_job(id)
    \/ (op[Loop] = "update" /\ pc'[Loop] # pc[Loop] /\ ~crashed')
C38_RotationKeepsLiveJobs ==
    [][\A t \in Threads :
          (pc[t] = "write" /\ SaveRotated(t))
              => \A k \in DOMAIN snap[t] :
                    snap[t][k].status \in {"queued", "processing"}
                        => k \in DOMAIN _load_jobs_from_file(file')]_vars

\* C39: once delete_job(J) has returned true, the record of J is not in the
\* jobs file and J has no full-result file, whatever the pool threads write
\* at the same time for J or for another job.
C39_DeletedStaysDeleted ==
    \A k \in deleted : k \notin DOMAIN Stored /\ k \notin blobs

\* C40: readiness is monotonic within a worker process: once is_ready() has
\* returned true in process p, every later is_ready() call of p returns true,
\* whatever the other processes write to the shared warmup status.
C40_ReadyStaysReady ==
    [][\A p \in Procs :
          (is_ready_result[p] /\ is_ready(p)) => is_ready_result'[p]]_vars

====
